---- MODULE Spec2Model ----
(***************************************************************************)
(* The World coordinator of actix-remote (src/src/world.rs): its           *)
(* registries, its message handlers and its shutdown sequence, as a state  *)
(* machine.  One action per builder method or message handler.             *)
(***************************************************************************)
EXTENDS Bags, FiniteSets, Integers, Sequences, TLC

\* ---------------------------------------------------------------- bounds
\* node identities that may be configured, connect or announce
Node == {"n1", "n2"}
\* type id strings, as returned by M::type_id() or carried by announcements
TypeId == {"t1", "t2"}
\* message types M; "M1" and "M2" are different types with the same type id
MsgType == {"M1", "M2", "M3"}
\* accepted inbound connections
MaxConn == 2
\* register_recipient calls
MaxReg == 2
\* routing proxy actors started
MaxProxy == 2
\* length of the type list of one NodeSupportedTypes announcement
MaxTypes == 2
\* socket addresses an address specifier may resolve to
SockAddr == {"a1", "a2"}
\* number of addresses one specifier resolves to
MaxAddrs == 2

\* ------------------------------------------------------------ the state
VARIABLES
    phase,          \* "new":     World::new built the value and has not bound yet
                    \* "failed":  bind returned Err, the World value is gone
                    \* "builder": World value owned by the caller, before start()
                    \* "running": World actor started
                    \* "stopped": ctx.stop() was called, the actor handles nothing
                    \* "exited":  SystemExit(0) was delivered to the System
    addrs,          \* World.addrs: configured node infos, keyed by address
    nodes,          \* World.nodes: node identity -> Addr of its NetworkNode
    types,          \* World.types: type id -> set of supporting nodes
    sockets,        \* World.sockets: local address -> bound listener
    wid,            \* World.wid
    workers,        \* World.workers: connection id -> NetworkWorker handle, as
                    \* the handler entries <<type id, handler, channel>> the
                    \* worker was given
    handlers,       \* World.handlers: type id -> handler
    recipients,     \* World.recipients: type id -> Proxy
    exit,           \* World.exit
    pending,        \* ids whose StopWorker reply future is spawned on ctx
    exitScheduled,  \* number of calls of stop_system_with_delay
    spawned,        \* number of NetworkNode actors started, per node identity
    nproxy,         \* number of RecipientProxy actors started
    nhandlers,      \* number of Provider handlers created
    announced,      \* history: (node, type id) pairs announced so far
    assigned,       \* history: connection ids in the order they were assigned
    reported,       \* history: draining workers whose WorkerDisconnected was handled
    drainSet,       \* history: worker ids registered at the latching signal
    out,            \* bag of messages sent by the last step
    last            \* the last operation and its arguments

registries == <<addrs, nodes, types, sockets, wid, workers, handlers, recipients>>
shutdown   == <<exit, pending, exitScheduled>>
history    == <<spawned, nproxy, nhandlers, announced, assigned, reported, drainSet>>
vars == <<phase, registries, shutdown, history, out, last>>

\* ------------------------------------------------------------- helpers
\* HashMap::new()
EmptyMap == [k \in {} |-> 0]

\* HashMap::insert: add or replace the entry of key k
Insert(m, k, v) == [x \in (DOMAIN m) \cup {k} |-> IF x = k THEN v ELSE m[x]]

\* HashMap::remove: no-op when the key is absent
Remove(m, k) == [x \in (DOMAIN m) \ {k} |-> m[x]]

\* addresses of the actors the coordinator sends to
WorkerAddr(id) == [actor |-> "worker", id |-> id, name |-> "-"]
ProxyAddr(p)   == [actor |-> "proxy", id |-> p, name |-> "-"]
NodeAddr(n, k) == [actor |-> "node", id |-> k, name |-> n]

\* one message, as a bag
Sent(to, kind, tp, node, h) ==
    SetToBag({[to |-> to, kind |-> kind, type_id |-> tp, node_id |-> node, handler |-> h]})

StopWorkerMsg(id)          == Sent(WorkerAddr(id), "StopWorker", "-", "-", 0)
ReconnectNodeMsg(addr)     == Sent(addr, "ReconnectNode", "-", "-", 0)
ProvideRecipientMsg(id, t, h) == Sent(WorkerAddr(id), "ProvideRecipient", t, "-", h)
TypeSupportedMsg(p, t, n, k)  == Sent(ProxyAddr(p), "TypeSupported", t, n, k)

\* sum of the bags f[x], x in S
RECURSIVE SumBags(_, _)
SumBags(S, f) ==
    IF S = {} THEN EmptyBag
    ELSE LET x == CHOOSE y \in S : TRUE IN f[x] (+) SumBags(S \ {x}, f)

\* NodeInformation::new(addr) and NodeInformation::address()
NodeInformation(addr) == [address |-> addr]

\* M::type_id(): the type id string of message type M
type_id(M) == IF M \in {"M1", "M2"} THEN "t1" ELSE "t2"

\* ----------------------------------------------------------------- Init
\* the World value World::new builds, before it calls bind
Init ==
    /\ phase = "new"
    /\ addrs = EmptyMap
    /\ nodes = EmptyMap
    /\ types = EmptyMap
    /\ sockets = EmptyMap
    /\ wid = 0
    /\ workers = EmptyMap
    /\ handlers = EmptyMap
    /\ recipients = EmptyMap
    /\ exit = FALSE
    /\ pending = {}
    /\ exitScheduled = 0
    /\ spawned = [n \in Node |-> 0]
    /\ nproxy = 0
    /\ nhandlers = 0
    /\ announced = {}
    /\ assigned = << >>
    /\ reported = {}
    /\ drainSet = {}
    /\ out = EmptyBag
    /\ last = [op |-> "new"]

\* -------------------------------------------------------- builder phase
\* errors utils::tcp_listener may return
BindError == {"EADDRINUSE", "EACCES"}

\* one iteration of the loop of bind: the address and what tcp_listener
\* returned for it
Attempt == [addr : SockAddr, outcome : {"Ok"} \cup BindError]

\* what addr.to_socket_addrs() may resolve to, with the outcome of each attempt
AttemptLists == UNION {[1..k -> Attempt] : k \in 0..MaxAddrs}

\* an address that already has a listener cannot be bound again
RECURSIVE Feasible(_, _)
Feasible(bound, atts) ==
    IF atts = << >> THEN TRUE
    ELSE LET a == Head(atts) IN
         /\ (a.addr \in bound => a.outcome # "Ok")
         /\ Feasible(IF a.outcome = "Ok" THEN bound \cup {a.addr} ELSE bound, Tail(atts))

\* the loop of bind that keeps the first error
RECURSIVE BindLoop_FirstError(_, _)
BindLoop_FirstError(st, atts) ==
    IF atts = << >> THEN st
    ELSE LET a == Head(atts) IN
         BindLoop_FirstError(
            IF a.outcome = "Ok"
            THEN [st EXCEPT !.succ = TRUE,
                            !.sockets = Insert(@, a.addr, [local_addr |-> a.addr])]
            ELSE [st EXCEPT !.err = IF @ = "None" THEN a.outcome ELSE @],
            Tail(atts))

\* the loop of bind over the resolved addresses: st holds err, succ and
\* self.sockets
RECURSIVE BindLoop(_, _)
BindLoop(st, atts) ==
    IF atts = << >> THEN st
    ELSE LET a == Head(atts) IN
         BindLoop(
            IF a.outcome = "Ok"
            THEN [st EXCEPT !.succ = TRUE,
                            !.sockets = Insert(@, a.addr, [local_addr |-> a.addr])]
            ELSE [st EXCEPT !.err = a.outcome],
            Tail(atts))

\* bind(addr): resolved tells whether addr.to_socket_addrs() succeeded, atts
\* is what it resolved to; on Err the World value, moved into bind, is dropped
bind(resolved, atts) ==
    LET st == BindLoop([err |-> "None", succ |-> FALSE, sockets |-> sockets], atts)
        result == IF ~resolved THEN [ok |-> FALSE, err |-> "to_socket_addrs"]
                  ELSE IF ~st.succ
                       THEN IF st.err # "None"
                            THEN [ok |-> FALSE, err |-> st.err]
                            ELSE [ok |-> FALSE, err |-> "Can not bind to address."]
                       ELSE [ok |-> TRUE, err |-> "None"]
    IN
    /\ phase \in {"new", "builder"}
    /\ resolved \/ atts = << >>
    /\ Feasible(DOMAIN sockets, atts)
    /\ IF result.ok
       THEN /\ phase' = "builder"
            /\ sockets' = st.sockets
       ELSE /\ phase' = "failed"
            /\ UNCHANGED sockets
    /\ out' = EmptyBag
    /\ last' = [op |-> "bind", resolved |-> resolved, attempts |-> atts, result |-> result]
    /\ UNCHANGED <<addrs, nodes, types, wid, workers, handlers, recipients,
                   shutdown, history>>

\* add_node(addr: Option<S>): "None" stands for the absent address
add_node(a) ==
    /\ phase = "builder"
    /\ addrs' = IF a = "None" THEN addrs ELSE Insert(addrs, a, NodeInformation(a))
    /\ out' = EmptyBag
    /\ last' = [op |-> "add_node", node |-> a]
    /\ UNCHANGED <<phase, nodes, types, sockets, wid, workers, handlers, recipients,
                   shutdown, history>>

\* the concrete type of the value get_recipient boxes into Proxy.addr:
\* Box::new(addr.clone()) with addr: Addr<Unsync, RecipientProxy<M>>
BoxedType(M) == <<"Addr<Unsync,RecipientProxy>", M>>

\* the type get_recipient asks downcast_ref for:
\* (Addr<Unsync, RecipientProxy<M>>, Addr<Syn, RecipientProxy<M>>)
DowncastType(M) == <<"(Addr<Unsync,RecipientProxy>,Addr<Syn,RecipientProxy>)", M>>

\* Any::downcast_ref::<T>() is Some exactly when the boxed value has type T
downcast_ref(box, T) == box.ty = T

\* get_recipient::<M>(); last.ret is the proxy backing the returned Recipient,
\* last.failed tells whether the call panicked or returned an error (no path
\* of the function does)
get_recipient(M) ==
    LET t == type_id(M) IN
    /\ phase = "builder"
    /\ IF t \in DOMAIN recipients /\ downcast_ref(recipients[t].addr, DowncastType(M))
       THEN /\ last' = [op |-> "get_recipient", m |-> M, failed |-> FALSE,
                         ret |-> recipients[t].addr.proxy]
            /\ UNCHANGED <<recipients, nproxy>>
       ELSE /\ nproxy < MaxProxy
            /\ nproxy' = nproxy + 1
            /\ recipients' = Insert(recipients, t,
                    [addr |-> [ty |-> BoxedType(M), proxy |-> nproxy'],
                     service |-> nproxy'])
            /\ last' = [op |-> "get_recipient", m |-> M, failed |-> FALSE, ret |-> nproxy']
    /\ out' = EmptyBag
    /\ UNCHANGED <<phase, addrs, nodes, types, sockets, wid, workers, handlers, shutdown,
                   spawned, nhandlers, announced, assigned, reported, drainSet>>

\* start(): the bound sockets are drained into accept streams, and one
\* supervised NetworkNode is started per configured node info
start ==
    /\ phase = "builder"
    /\ phase' = "running"
    /\ nodes' = [a \in {addrs[k].address : k \in DOMAIN addrs} |-> NodeAddr(a, spawned[a] + 1)]
    /\ spawned' = [n \in Node |-> IF n \in DOMAIN nodes' THEN spawned[n] + 1 ELSE spawned[n]]
    /\ sockets' = EmptyMap
    /\ out' = EmptyBag
    /\ last' = [op |-> "start"]
    /\ UNCHANGED <<addrs, types, wid, workers, handlers, recipients, shutdown,
                   nproxy, nhandlers, announced, assigned, reported, drainSet>>

\* -------------------------------------------------------- running phase
\* ProvideRecipient that stores the handler and notifies no worker
ProvideRecipient_NoBroadcast(M) ==
    LET t == type_id(M)
        h == nhandlers + 1 IN
    /\ phase = "running"
    /\ nhandlers < MaxReg
    /\ nhandlers' = h
    /\ out' = EmptyBag
    /\ handlers' = Insert(handlers, t, h)
    /\ last' = [op |-> "ProvideRecipient", type_id |-> t, handler |-> h]
    /\ UNCHANGED <<phase, addrs, nodes, types, sockets, wid, workers, recipients, shutdown,
                   spawned, nproxy, announced, assigned, reported, drainSet>>

\* Handler<msgs::ProvideRecipient>, for the message register_recipient::<M>
\* sends: type_id M::type_id() and a new Arc<Provider>
ProvideRecipient(M) ==
    LET t == type_id(M)
        h == nhandlers + 1 IN
    /\ phase = "running"
    /\ nhandlers < MaxReg
    /\ nhandlers' = h
    /\ workers' = [id \in DOMAIN workers |-> workers[id] \cup {<<t, h, "do_send">>}]
    /\ out' = SumBags(DOMAIN workers, [id \in DOMAIN workers |-> ProvideRecipientMsg(id, t, h)])
    /\ handlers' = Insert(handlers, t, h)
    /\ last' = [op |-> "ProvideRecipient", type_id |-> t, handler |-> h]
    /\ UNCHANGED <<phase, addrs, nodes, types, sockets, wid, recipients, shutdown,
                   spawned, nproxy, announced, assigned, reported, drainSet>>

\* Accept that numbers the connection by the size of the worker map
Accept_ReuseId ==
    /\ phase = "running"
    /\ wid < MaxConn
    /\ wid' = Cardinality(DOMAIN workers) + 1
    /\ workers' = Insert(workers, wid', {<<t, handlers[t], "start">> : t \in DOMAIN handlers})
    /\ assigned' = Append(assigned, wid')
    /\ out' = EmptyBag
    /\ last' = [op |-> "Accept", id |-> wid']
    /\ UNCHANGED <<phase, addrs, nodes, types, sockets, handlers, recipients, shutdown,
                   spawned, nproxy, nhandlers, announced, reported, drainSet>>

\* StreamHandler<(TcpStream, SocketAddr)>: a connection was accepted; the new
\* worker is started with a clone of the handlers map
Accept ==
    /\ phase = "running"
    /\ wid < MaxConn
    /\ wid' = wid + 1
    /\ workers' = Insert(workers, wid', {<<t, handlers[t], "start">> : t \in DOMAIN handlers})
    /\ assigned' = Append(assigned, wid')
    /\ out' = EmptyBag
    /\ last' = [op |-> "Accept", id |-> wid']
    /\ UNCHANGED <<phase, addrs, nodes, types, sockets, handlers, recipients, shutdown,
                   spawned, nproxy, nhandlers, announced, reported, drainSet>>

\* WorkerDisconnected that empties the worker map
WorkerDisconnected_Clear(c) ==
    /\ phase = "running"
    /\ workers' = EmptyMap
    /\ reported' = reported \cup ({c} \cap drainSet)
    /\ out' = EmptyBag
    /\ last' = [op |-> "WorkerDisconnected", id |-> c, registered |-> c \in DOMAIN workers]
    /\ UNCHANGED <<phase, addrs, nodes, types, sockets, wid, handlers, recipients, shutdown,
                   spawned, nproxy, nhandlers, announced, assigned, drainSet>>

\* Handler<msgs::WorkerDisconnected>
WorkerDisconnected(c) ==
    /\ phase = "running"
    /\ workers' = Remove(workers, c)
    /\ reported' = reported \cup ({c} \cap drainSet)
    /\ out' = EmptyBag
    /\ last' = [op |-> "WorkerDisconnected", id |-> c, registered |-> c \in DOMAIN workers]
    /\ UNCHANGED <<phase, addrs, nodes, types, sockets, wid, handlers, recipients, shutdown,
                   spawned, nproxy, nhandlers, announced, assigned, drainSet>>

\* NodeConnected that starts a node actor without looking the node up
NodeConnected_AlwaysSpawn(n) ==
    /\ phase = "running"
    /\ spawned' = [spawned EXCEPT ![n] = @ + 1]
    /\ nodes' = Insert(nodes, n, NodeAddr(NodeInformation(n).address, spawned'[n]))
    /\ out' = EmptyBag
    /\ last' = [op |-> "NodeConnected", node |-> n]
    /\ UNCHANGED <<phase, addrs, types, sockets, wid, workers, handlers, recipients, shutdown,
                   nproxy, nhandlers, announced, assigned, reported, drainSet>>

\* Handler<msgs::NodeConnected>
NodeConnected(n) ==
    /\ phase = "running"
    /\ IF n \in DOMAIN nodes
       THEN /\ out' = ReconnectNodeMsg(nodes[n])
            /\ UNCHANGED <<nodes, spawned>>
       ELSE /\ spawned' = [spawned EXCEPT ![n] = @ + 1]
            /\ nodes' = Insert(nodes, n, NodeAddr(NodeInformation(n).address, spawned'[n]))
            /\ out' = EmptyBag
    /\ last' = [op |-> "NodeConnected", node |-> n]
    /\ UNCHANGED <<phase, addrs, types, sockets, wid, workers, handlers, recipients, shutdown,
                   nproxy, nhandlers, announced, assigned, reported, drainSet>>

\* RegisterTypes that overwrites the supporter set of a type
RECURSIVE RegisterTypes_Replace(_, _, _)
RegisterTypes_Replace(m, n, tps) ==
    IF tps = << >> THEN m
    ELSE RegisterTypes_Replace(Insert(m, Head(tps), {n}), n, Tail(tps))

\* the first loop of Handler<msgs::NodeSupportedTypes>: register every type
\* of the list tps for node n in the registry m
RECURSIVE RegisterTypes(_, _, _)
RegisterTypes(m, n, tps) ==
    IF tps = << >> THEN m
    ELSE LET tp == Head(tps)
             m1 == IF tp \notin DOMAIN m THEN Insert(m, tp, {}) ELSE m
         IN RegisterTypes(Insert(m1, tp, m1[tp] \cup {n}), n, Tail(tps))

\* NotifyProxies that stops after the first type of the list
NotifyProxies_FirstOnly(n, tps) ==
    IF n \in DOMAIN nodes /\ tps # << >> /\ tps[1] \in DOMAIN recipients
    THEN TypeSupportedMsg(recipients[tps[1]].service, tps[1], n, nodes[n].id)
    ELSE EmptyBag

\* NotifyProxies that does not look the node up
NotifyProxies_NoNodeCheck(n, tps) ==
    SumBags(DOMAIN tps,
        [i \in DOMAIN tps |->
            IF tps[i] \in DOMAIN recipients
            THEN TypeSupportedMsg(recipients[tps[i]].service, tps[i], n,
                                  IF n \in DOMAIN nodes THEN nodes[n].id ELSE 0)
            ELSE EmptyBag])

\* the second loop of Handler<msgs::NodeSupportedTypes>: the TypeSupported
\* messages sent for node n and the type list tps
NotifyProxies(n, tps) ==
    IF n \in DOMAIN nodes
    THEN SumBags(DOMAIN tps,
            [i \in DOMAIN tps |->
                IF tps[i] \in DOMAIN recipients
                THEN TypeSupportedMsg(recipients[tps[i]].service, tps[i], n, nodes[n].id)
                ELSE EmptyBag])
    ELSE EmptyBag

\* Handler<msgs::NodeSupportedTypes>
NodeSupportedTypes(n, tps) ==
    /\ phase = "running"
    /\ types' = RegisterTypes(types, n, tps)
    /\ out' = NotifyProxies(n, tps)
    /\ announced' = announced \cup {<<n, tps[i]>> : i \in DOMAIN tps}
    /\ last' = [op |-> "NodeSupportedTypes", node |-> n, types |-> tps]
    /\ UNCHANGED <<phase, addrs, nodes, sockets, wid, workers, handlers, recipients,
                   shutdown, spawned, nproxy, nhandlers, assigned, reported, drainSet>>

\* stop_system_with_delay(): a timer that sends SystemExit(0) is spawned
stop_system_with_delay == exitScheduled' = exitScheduled + 1

\* stop without the exit latch
stop_NoLatch ==
    /\ exit' = TRUE
    /\ drainSet' = IF exit THEN drainSet ELSE DOMAIN workers
    /\ IF workers = EmptyMap
       THEN /\ stop_system_with_delay
            /\ out' = EmptyBag
            /\ UNCHANGED pending
       ELSE /\ out' = SumBags(DOMAIN workers, [id \in DOMAIN workers |-> StopWorkerMsg(id)])
            /\ pending' = DOMAIN workers
            /\ UNCHANGED exitScheduled

\* stop that schedules exit whether or not workers are registered
stop_AlwaysSchedule ==
    IF ~exit
    THEN /\ exit' = TRUE
         /\ drainSet' = DOMAIN workers
         /\ stop_system_with_delay
         /\ out' = SumBags(DOMAIN workers, [id \in DOMAIN workers |-> StopWorkerMsg(id)])
         /\ pending' = DOMAIN workers
    ELSE /\ out' = EmptyBag
         /\ UNCHANGED <<exit, drainSet, pending, exitScheduled>>

\* World::stop, up to the spawning of the reply futures
stop ==
    IF ~exit
    THEN /\ exit' = TRUE
         /\ drainSet' = DOMAIN workers
         /\ IF workers = EmptyMap
            THEN /\ stop_system_with_delay
                 /\ out' = EmptyBag
                 /\ UNCHANGED pending
            ELSE /\ out' = SumBags(DOMAIN workers, [id \in DOMAIN workers |-> StopWorkerMsg(id)])
                 /\ pending' = DOMAIN workers
                 /\ UNCHANGED exitScheduled
    ELSE /\ out' = EmptyBag
         /\ UNCHANGED <<exit, drainSet, pending, exitScheduled>>

\* signal::SignalType
SignalType == {"Hup", "Int", "Term", "Quit", "Child"}

\* Handler<signal::Signal>
Signal(sig) ==
    /\ phase = "running"
    /\ IF sig \in {"Int", "Term", "Quit"}
       THEN stop
       ELSE /\ out' = EmptyBag
            /\ UNCHANGED <<exit, drainSet, pending, exitScheduled>>
    /\ last' = [op |-> "Signal", sig |-> sig]
    /\ UNCHANGED <<phase, registries, spawned, nproxy, nhandlers, announced,
                   assigned, reported>>

\* the reply closure without the is_empty test
StopReply_NoEmptyCheck(id) ==
    /\ phase = "running"
    /\ id \in pending
    /\ workers' = Remove(workers, id)
    /\ phase' = "stopped"
    /\ pending' = {}
    /\ stop_system_with_delay
    /\ out' = EmptyBag
    /\ last' = [op |-> "StopReply", id |-> id, dropped |-> pending \ {id}]
    /\ UNCHANGED <<addrs, nodes, types, sockets, wid, handlers, recipients, exit, history>>

\* the reply closure, also dropping the node handles when the map is empty
StopReply_DropsNodes(id) ==
    /\ phase = "running"
    /\ id \in pending
    /\ workers' = Remove(workers, id)
    /\ IF workers' = EmptyMap
       THEN /\ phase' = "stopped"
            /\ pending' = {}
            /\ nodes' = EmptyMap
            /\ stop_system_with_delay
       ELSE /\ pending' = pending \ {id}
            /\ UNCHANGED <<phase, exitScheduled, nodes>>
    /\ out' = EmptyBag
    /\ last' = [op |-> "StopReply", id |-> id,
                dropped |-> IF workers' = EmptyMap THEN pending \ {id} ELSE {}]
    /\ UNCHANGED <<addrs, types, sockets, wid, handlers, recipients, exit, history>>

\* the reply closure without ctx.stop()
StopReply_KeepsRunning(id) ==
    /\ phase = "running"
    /\ id \in pending
    /\ workers' = Remove(workers, id)
    /\ pending' = pending \ {id}
    /\ IF workers' = EmptyMap
       THEN stop_system_with_delay
       ELSE UNCHANGED exitScheduled
    /\ out' = EmptyBag
    /\ last' = [op |-> "StopReply", id |-> id, dropped |-> {}]
    /\ UNCHANGED <<phase, addrs, nodes, types, sockets, wid, handlers, recipients, exit, history>>

\* the closure World::stop chains to the reply of worker id: it runs when the
\* StopWorker request resolves, with a reply or with a mailbox error;
\* ctx.stop() ends the actor, and the futures still spawned on it are dropped
StopReply(id) ==
    /\ phase = "running"
    /\ id \in pending
    /\ workers' = Remove(workers, id)
    /\ IF workers' = EmptyMap
       THEN /\ phase' = "stopped"
            /\ pending' = {}
            /\ stop_system_with_delay
       ELSE /\ pending' = pending \ {id}
            /\ UNCHANGED <<phase, exitScheduled>>
    /\ out' = EmptyBag
    /\ last' = [op |-> "StopReply", id |-> id,
                dropped |-> IF workers' = EmptyMap THEN pending \ {id} ELSE {}]
    /\ UNCHANGED <<addrs, nodes, types, sockets, wid, handlers, recipients, exit, history>>

\* the timer of stop_system_with_delay fires: SystemExit(0) ends the process
SystemExit ==
    /\ phase \in {"running", "stopped"}
    /\ exitScheduled > 0
    /\ phase' = "exited"
    /\ out' = EmptyBag
    /\ last' = [op |-> "SystemExit"]
    /\ UNCHANGED <<registries, shutdown, history>>

\* type lists of announcements: Vec<String>, repetitions allowed
TypeLists == UNION {[1..k -> TypeId] : k \in 0..MaxTypes}

\* every operation, for an embedding program that creates one recipient and
\* one handler, nodes that connect and announce freely, and one inbound
\* connection
Next ==
    \/ \E o \in {"Ok", "EADDRINUSE"} : bind(TRUE, <<[addr |-> "a1", outcome |-> o]>>)
    \/ \E a \in Node \cup {"None"} : add_node(a)
    \/ nproxy = 0 /\ \E M \in MsgType : get_recipient(M)
    \/ start
    \/ nhandlers = 0 /\ ProvideRecipient("M1")
    \/ wid = 0 /\ Accept
    \/ WorkerDisconnected(1)
    \/ \E n \in Node : NodeConnected(n)
    \/ \E n \in Node, tps \in TypeLists : NodeSupportedTypes(n, tps)
    \/ \E sig \in {"Hup", "Term"} : Signal(sig)
    \/ StopReply(1)
    \/ SystemExit

Spec == Init /\ [][Next]_vars

\* every operation, for peers that connect, disconnect and register freely
\* while a single node and a single type are configured and announced
NextDrain ==
    \/ \E o \in {"Ok", "EADDRINUSE"} : bind(TRUE, <<[addr |-> "a1", outcome |-> o]>>)
    \/ \E a \in {"n1", "None"} : add_node(a)
    \/ nproxy = 0 /\ get_recipient("M1")
    \/ start
    \/ \E M \in MsgType : ProvideRecipient(M)
    \/ Accept
    \/ \E c \in 1..MaxConn : WorkerDisconnected(c)
    \/ NodeConnected("n1")
    \/ NodeSupportedTypes("n1", <<"t1">>)
    \/ \E sig \in SignalType : Signal(sig)
    \/ \E id \in 1..MaxConn : StopReply(id)
    \/ SystemExit

SpecDrain == Init /\ [][NextDrain]_vars

\* the builder methods and the node handlers, for an embedding program that
\* asks for recipients freely and a World no peer connects to
NextRecipients ==
    \/ \E o \in {"Ok", "EADDRINUSE"} : bind(TRUE, <<[addr |-> "a1", outcome |-> o]>>)
    \/ \E a \in Node \cup {"None"} : add_node(a)
    \/ \E M \in MsgType : get_recipient(M)
    \/ start
    \/ \E n \in Node : NodeConnected(n)
    \/ \E n \in Node, tps \in TypeLists : NodeSupportedTypes(n, tps)

SpecRecipients == Init /\ [][NextRecipients]_vars

\* the builder methods, for an embedding program that binds freely
NextBind ==
    \/ \E resolved \in BOOLEAN, atts \in AttemptLists : bind(resolved, atts)
    \/ add_node("n1")
    \/ nproxy = 0 /\ get_recipient("M1")
    \/ start

SpecBind == Init /\ [][NextBind]_vars

\* ------------------------------------------------------------ properties
TerminationSignals == {"Int", "Term", "Quit"}

\* the worker map is empty
NoWorkers == DOMAIN workers = {}

\* a TypeSupported message for type t and node n is among the messages the
\* last step sent to proxy p
NotifiedOf(p, t, n) ==
    \E m \in BagToSet(out) :
        /\ m.kind = "TypeSupported"
        /\ m.to = ProxyAddr(p)
        /\ m.type_id = t
        /\ m.node_id = n

\* a TypeSupported message for type t is among the messages of the last step
NotifiedAbout(t) ==
    \E m \in BagToSet(out) : m.kind = "TypeSupported" /\ m.type_id = t

\* the (node, type id) pairs of a type registry
TypePairs(m) == {p \in Node \X TypeId : p[2] \in DOMAIN m /\ p[1] \in m[p[2]]}

\* C1: drain completeness, the "if" half in the form a finite run decides:
\* once a termination signal found k >= 1 workers registered, all k of them
\* have reported disconnection and no stop reply is outstanding, the
\* coordinator has reached Terminating (exit is scheduled).
C1_DrainCompleteness ==
    (drainSet # {} /\ drainSet \subseteq reported /\ pending = {}) => exitScheduled > 0

\* C2: a step that schedules process exit leaves no worker handle in the
\* worker map.
C2_NoExitWithWorkers ==
    [][exitScheduled' > exitScheduled => DOMAIN workers' = {}]_vars

\* C2 case: exit was scheduled by a stop reply, after a drain of registered workers
C2_Witness ==
    /\ last.op = "StopReply"
    /\ exitScheduled = 1
    /\ drainSet # {}
    /\ NoWorkers

\* C3: at most one connection actor is ever started per node identity, and a
\* NodeConnected(N) for a node that has a handle sends exactly one
\* ReconnectNode to that handle, starts nothing and leaves the node map as
\* it was.
C3_IdempotentReconnection ==
    [][/\ \A n \in Node : spawned'[n] <= 1
       /\ \A n \in DOMAIN nodes' : nodes'[n] = NodeAddr(n, 1)
       /\ \A n \in DOMAIN nodes :
            (last'.op = "NodeConnected" /\ last'.node = n) =>
                /\ out' = ReconnectNodeMsg(nodes[n])
                /\ nodes' = nodes
                /\ spawned' = spawned]_vars

\* C3 case: a configured node, started by start(), got a NodeConnected, and
\* so did a node that was not configured, twice
C3_Witness ==
    /\ last.op = "NodeConnected"
    /\ out = ReconnectNodeMsg(nodes[last.node])
    /\ \E n \in DOMAIN addrs : n \in DOMAIN nodes
    /\ \E n \in DOMAIN nodes : n \notin DOMAIN addrs

\* C4: a get_recipient call for a type id whose slot holds the proxy of the
\* same message type returns that proxy, starts no proxy and leaves the slot
\* as it was; no call returns the proxy of another type id.
C4_RecipientMemoization ==
    [][last'.op = "get_recipient" =>
        LET t == type_id(last'.m) IN
        /\ (t \in DOMAIN recipients /\ recipients[t].addr.ty = BoxedType(last'.m)) =>
                /\ last'.ret = recipients[t].addr.proxy
                /\ recipients' = recipients
                /\ nproxy' = nproxy
        /\ \A u \in DOMAIN recipients \ {t} : last'.ret # recipients[u].addr.proxy]_vars

\* C5: a get_recipient call for a type id whose slot holds the proxy of a
\* different message type fails, and neither replaces the slot nor starts a
\* proxy.
C5_MismatchFailsFast ==
    [][last'.op = "get_recipient" =>
        LET t == type_id(last'.m) IN
        (t \in DOMAIN recipients /\ recipients[t].addr.ty # BoxedType(last'.m)) =>
            /\ last'.failed
            /\ recipients' = recipients
            /\ nproxy' = nproxy]_vars

\* C6: after every step the supporter sets hold exactly the (node, type)
\* pairs announced so far, and no step removes a type or a node from a
\* supporter set.
C6_TypeSupportConvergence ==
    [][/\ TypePairs(types') = announced'
       /\ \A t \in DOMAIN types : t \in DOMAIN types' /\ types[t] \subseteq types'[t]]_vars

\* C6 case: both nodes announced the same type, another type was announced
\* too, and a connection and a termination signal came in between
C6_Witness ==
    /\ last.op = "NodeSupportedTypes"
    /\ "t1" \in DOMAIN types
    /\ types["t1"] = Node
    /\ "t2" \in DOMAIN types
    /\ wid = 1
    /\ exit

\* C7: the n-th accepted connection gets id n, every id of the worker map
\* lies in 1..wid, and an accept assigns an id above every id assigned
\* before, freed or not.
C7_ConnectionIdsIncrease ==
    [][/\ Len(assigned') = wid'
       /\ \A i \in 1..Len(assigned') : assigned'[i] = i
       /\ DOMAIN workers' \subseteq 1..wid'
       /\ last'.op = "Accept" =>
            /\ last'.id \in DOMAIN workers'
            /\ \A i \in 1..Len(assigned) : assigned[i] < last'.id]_vars

\* C7 case: a connection was accepted after the id of an earlier one was
\* freed
C7_Witness ==
    /\ last.op = "Accept"
    /\ last.id = 2
    /\ DOMAIN workers = {2}

\* C8: every worker of the worker map was given every entry of the handler
\* set, at its start or by a ProvideRecipient message.
C8_WorkersHoldHandlers ==
    \A id \in DOMAIN workers : \A t \in DOMAIN handlers :
        \E e \in workers[id] : e[1] = t /\ e[2] = handlers[t]

\* C8 case: one worker holds a handler that was registered before its
\* connection was accepted and another that was registered after
C8_Witness ==
    \E id \in DOMAIN workers :
        /\ \E e \in workers[id] : e[3] = "start" /\ e[1] \in DOMAIN handlers /\ handlers[e[1]] = e[2]
        /\ \E e \in workers[id] : e[3] = "do_send" /\ e[1] \in DOMAIN handlers /\ handlers[e[1]] = e[2]

\* C9 as stated: an announcement of node n handled while type t has no
\* recipient slot sends no TypeSupported for t, and one handled while t has
\* a slot sends TypeSupported(t, n) to the proxy of that slot.
C9_AnnouncementReachesProxy ==
    last.op = "NodeSupportedTypes" =>
        \A i \in DOMAIN last.types :
            LET t == last.types[i] IN
            IF t \in DOMAIN recipients
            THEN NotifiedOf(recipients[t].service, t, last.node)
            ELSE ~NotifiedAbout(t)

\* C9 as amended: an announcement of node n handled while type t has no
\* recipient slot sends no TypeSupported for t; one handled while t has a
\* slot sends TypeSupported(t, n) to the proxy of that slot when n has a
\* handle in the node map, and sends nothing for t when n has none.
C9_AnnouncementReachesProxyOfKnownNode ==
    last.op = "NodeSupportedTypes" =>
        \A i \in DOMAIN last.types :
            LET t == last.types[i] IN
            IF t \in DOMAIN recipients /\ last.node \in DOMAIN nodes
            THEN NotifiedOf(recipients[t].service, t, last.node)
            ELSE ~NotifiedAbout(t)

\* C9 case: one announcement named a type without a slot and a type with a
\* slot, for a node with a handle, and the proxy of the slot was notified
C9_Witness ==
    /\ last.op = "NodeSupportedTypes"
    /\ last.node \in DOMAIN nodes
    /\ \E i \in DOMAIN last.types : last.types[i] \notin DOMAIN recipients
    /\ \E i \in DOMAIN last.types :
            /\ last.types[i] \in DOMAIN recipients
            /\ NotifiedOf(recipients[last.types[i]].service, last.types[i], last.node)

\* C10: the exit flag never goes back to false, and a termination signal
\* handled while it is set changes no registry, sends nothing and schedules
\* no exit.
C10_ShutdownLatch ==
    [][/\ exit => exit'
       /\ (exit /\ last'.op = "Signal") =>
            /\ out' = EmptyBag
            /\ UNCHANGED <<phase, registries, shutdown, history>>]_vars

\* C10 case: a second termination signal arrived while workers were draining
C10_Witness ==
    /\ last.op = "Signal"
    /\ last.sig \in TerminationSignals
    /\ exit
    /\ pending # {}
    /\ ~NoWorkers
    /\ out = EmptyBag

\* C11: a type id that has a handler entry keeps that entry: no step stores
\* another handler for it or sends another handler for it to a worker.
C11_OneHandlerPerType ==
    [][\A t \in DOMAIN handlers :
        /\ t \in DOMAIN handlers'
        /\ handlers'[t] = handlers[t]
        /\ \A m \in BagToSet(out') :
            (m.kind = "ProvideRecipient" /\ m.type_id = t) => m.handler = handlers[t]]_vars

\* the largest element of a non-empty set of numbers
MaxOf(S) == CHOOSE x \in S : \A y \in S : y <= x

\* C12: a bind over a resolved address list succeeds exactly when some
\* attempt bound; on success the sockets are those held before and those
\* bound in the call; when every attempt failed the error is that of the
\* last failed attempt, and when there was no attempt it is the generic one.
C12_BindOutcome ==
    [][(last'.op = "bind" /\ last'.resolved) =>
        LET atts == last'.attempts
            okIdx == {i \in DOMAIN atts : atts[i].outcome = "Ok"}
            errIdx == DOMAIN atts \ okIdx
        IN
        /\ last'.result.ok <=> okIdx # {}
        /\ okIdx # {} =>
            /\ phase' = "builder"
            /\ DOMAIN sockets' = DOMAIN sockets \cup {atts[i].addr : i \in okIdx}
            /\ \A a \in DOMAIN sockets : sockets'[a] = sockets[a]
        /\ (okIdx = {} /\ errIdx # {}) => last'.result.err = atts[MaxOf(errIdx)].outcome
        /\ (okIdx = {} /\ errIdx = {}) => last'.result.err = "Can not bind to address."]_vars

\* C12 case: a second bind call, one attempt failed and one bound, and the
\* World holds the socket of the first call and the new one
C12_Witness ==
    /\ last.op = "bind"
    /\ last.result.ok
    /\ \E i \in DOMAIN last.attempts : last.attempts[i].outcome # "Ok"
    /\ \E a \in DOMAIN sockets : \A i \in DOMAIN last.attempts :
            last.attempts[i].addr = a => last.attempts[i].outcome # "Ok"

\* C13: whenever the exit latch is set and the worker map is empty, process
\* exit has been scheduled.
C13_EmptyMapMeansTerminating ==
    (exit /\ NoWorkers) => exitScheduled > 0

\* the number of TypeSupported messages for type t in the bag b
TypeSupportedCount(t, b) ==
    LET S == {m \in BagToSet(b) : m.kind = "TypeSupported" /\ m.type_id = t}
    IN BagCardinality([m \in S |-> b[m]])

\* the number of times t occurs in the list tps
Occurrences(t, tps) == Cardinality({i \in DOMAIN tps : tps[i] = t})

\* C14: handling NodeSupportedTypes(node, types) sends TypeSupported(type,
\* node, handle) to the proxy of the slot of a type, once per occurrence of
\* the type in the list, exactly when the node has a handle and the type has
\* a slot; it registers the node for every type of the list either way, and
\* a later NodeConnected sends no TypeSupported.
C14_NotifiedExactlyWhenRoutable ==
    [][/\ last'.op = "NodeSupportedTypes" =>
            LET n == last'.node
                tps == last'.types IN
            /\ \A t \in TypeId :
                TypeSupportedCount(t, out') =
                    IF n \in DOMAIN nodes /\ t \in DOMAIN recipients
                    THEN Occurrences(t, tps) ELSE 0
            /\ \A m \in BagToSet(out') :
                /\ m.kind = "TypeSupported"
                /\ m.node_id = n
                /\ m.to = ProxyAddr(recipients[m.type_id].service)
                /\ m.handler = nodes[n].id
            /\ \A i \in DOMAIN tps : tps[i] \in DOMAIN types' /\ n \in types'[tps[i]]
       /\ last'.op = "NodeConnected" =>
            \A m \in BagToSet(out') : m.kind # "TypeSupported"]_vars

\* C14 case: a node announced a type that has a slot while it had no handle,
\* and was connected afterwards
C14_Witness ==
    /\ last.op = "NodeConnected"
    /\ out = EmptyBag
    /\ \E t \in DOMAIN recipients : <<last.node, t>> \in announced

\* C15: accepting a connection adds exactly one worker handle, under the new
\* id; WorkerDisconnected(c) removes the handle of c and nothing else: the
\* other handles, wid and the node, type, handler and proxy registries are
\* unchanged, and for an id that is not registered nothing changes.
C15_WorkerHandleFrame ==
    [][/\ last'.op = "Accept" =>
            /\ last'.id = wid'
            /\ last'.id \notin DOMAIN workers
            /\ DOMAIN workers' = DOMAIN workers \cup {last'.id}
            /\ \A d \in DOMAIN workers : workers'[d] = workers[d]
       /\ last'.op = "WorkerDisconnected" =>
            /\ DOMAIN workers' = DOMAIN workers \ {last'.id}
            /\ \A d \in DOMAIN workers' : workers'[d] = workers[d]
            /\ UNCHANGED <<wid, nodes, types, handlers, recipients>>
            /\ last'.id \notin DOMAIN workers =>
                    UNCHANGED <<phase, registries, shutdown>>]_vars

\* C15 case: a registered worker reported disconnection while another worker
\* was registered
C15_Witness ==
    /\ last.op = "WorkerDisconnected"
    /\ last.registered
    /\ workers # EmptyMap

\* C16: the first termination signal schedules exit in that step and sends
\* nothing when the worker map is empty; otherwise it sends exactly one
\* StopWorker to each worker of the map and does not schedule exit.
C16_FirstSignal ==
    [][(last'.op = "Signal" /\ last'.sig \in TerminationSignals /\ ~exit) =>
            /\ exit'
            /\ IF NoWorkers
               THEN /\ exitScheduled' = exitScheduled + 1
                    /\ out' = EmptyBag
               ELSE /\ exitScheduled' = exitScheduled
                    /\ BagToSet(out') =
                        {[to |-> WorkerAddr(id), kind |-> "StopWorker", type_id |-> "-",
                          node_id |-> "-", handler |-> 0] : id \in DOMAIN workers}
                    /\ \A m \in BagToSet(out') : CopiesIn(m, out') = 1]_vars

\* C16 case: the first termination signal arrived while two workers were
\* registered
C16_Witness ==
    /\ last.op = "Signal"
    /\ last.sig \in TerminationSignals
    /\ Cardinality(drainSet) = 2
    /\ BagCardinality(out) = 2
    /\ exitScheduled = 0

\* C17: handling a signal or a stop reply sends nothing to a node connection
\* actor and leaves the node map unchanged.
C17_DrainIgnoresNodes ==
    [][last'.op \in {"Signal", "StopReply"} =>
            /\ nodes' = nodes
            /\ \A m \in BagToSet(out') : m.to.actor # "node"]_vars

\* C17 case: the last stop reply of a drain scheduled exit while a node
\* handle was registered
C17_Witness ==
    /\ last.op = "StopReply"
    /\ exitScheduled > 0
    /\ drainSet # {}
    /\ DOMAIN nodes # {}

\* C18: whenever the exit latch is set, every worker of the worker map has
\* been sent a stop instruction.
C18_StopCoverage == exit => DOMAIN workers \subseteq drainSet

\* C19: process exit is scheduled at most once.
C19_ExitScheduledOnce == exitScheduled <= 1

\* C19 case: every worker reported disconnection before any stop reply was
\* handled; the first reply found the map empty, scheduled exit and stopped
\* the coordinator, which dropped the reply futures still spawned on it
C19_Witness ==
    /\ last.op = "StopReply"
    /\ exitScheduled = 1
    /\ last.dropped # {}
    /\ last.dropped \subseteq reported

\* C20: once exit is scheduled the worker map is empty.
C20_NoWorkersOnceTerminating == exitScheduled > 0 => NoWorkers

====
